---------------------------- MODULE Spec2Model ----------------------------
(* Can:Sat E32 LoRa driver (src/main.ts).  The file holds two variants of   *)
(* the driver (lines 5-484 and 490-1015); `variant' selects which one a     *)
(* behaviour runs.  The driver is one cooperative fiber: it gives up the    *)
(* processor only in basic.pause.  The serial line listener is a second     *)
(* fiber that runs when the driver is idle or paused.                       *)
(*                                                                          *)
(* Environment: the ready line (AUX) is read as 0 or 1 at every poll; the   *)
(* module answers a write frame with one of Echoes and a read request with  *)
(* one of Responses, and the bytes reach the receive buffer at any time, in *)
(* chunks; a paused fiber wakes at the next scheduler tick (SchedTickMs);   *)
(* public calls are made while the line is quiet (LineQuiet).  The two      *)
(* digitalWritePin calls of a mode switch are two steps; nothing but the    *)
(* arrival of bytes can happen between them, since the fiber does not yield.*)
(*                                                                          *)
(* Spec      : init, applyConfig, readConfig, onReceiveString and the two   *)
(*             serial routing calls.                                        *)
(* SpecMsg   : the messaging layer (sendString, sendFixed, setTxMode,       *)
(*             useLineFraming, onReceiveString, input lines) with init and  *)
(*             readConfig.                                                  *)
(* SpecCodec : the packing of applyConfig's arguments into the write frame, *)
(*             over a range of arguments.                                   *)
(* SpecAll   : the transactions, the messaging operations and the setters  *)
(*             together.                                                    *)
(* SpecLive  : init, applyConfig and readConfig under weak fairness of the  *)
(*             driver fiber, for termination.                               *)
EXTENDS Integers, Sequences, FiniteSets, TLC

VARIABLES
    variant,            \* 1: lines 5-484, 2: lines 490-1015
    \* ---- driver state (main.ts 88-107)
    inited, rxHandler, receiverInstalled, fixedMode, useLineMode,
    lastCfg, currentUart, lastError, cfgOk, stage,
    listeners,          \* functions registered with serial.onDataReceived
    \* ---- pins and UART
    m0, m1, uart,
    rxBuf,              \* bytes received and not yet read
    wire,               \* bytes the module has sent that are still in flight
    evtPending,         \* a delimiter was received: the listener is due
    \* ---- control
    pc, ret, elapsed, tmo, rbN,
    \* ---- locals of the running call
    args, frame, msg, waitRes, enterRes, buf, rbRes, rpRes, echo, readback,
    \* ---- observation of the running / last call
    op, calls, preCfg, preUart, preFailed, retVal, initRuns, txLog, callLog, lsnLog, lineCnt

vGlob == <<inited, rxHandler, receiverInstalled, listeners, fixedMode, useLineMode,
           lastCfg, currentUart, lastError, cfgOk, stage>>
vHw   == <<m0, m1, uart>>
vRx   == <<rxBuf, wire, evtPending>>
vCtl  == <<pc, ret, elapsed, tmo, rbN>>
vLoc  == <<args, frame, msg, waitRes, enterRes, buf, rbRes, rpRes, echo, readback>>
vObs  == <<op, calls, preCfg, preUart, preFailed, retVal, initRuns, txLog, callLog, lsnLog, lineCnt>>
vars  == <<variant, vGlob, vHw, vRx, vCtl, vLoc, vObs>>

-----------------------------------------------------------------------------
(* Bounds of the model *)

\* public calls per behaviour
MaxCalls == 2
\* the scheduler wakes a paused fiber at the first multiple of SchedTickMs at
\* or after the requested delay
SchedTickMs == 1000
\* bytes the UART hands over at once while a longer message is arriving
ChunkLen == 3
\* listener runs per public call
MaxLsn == 1
\* input lines that arrive between two public calls
MaxLines == 1
\* the largest enum arguments given to the packing (the smallest is -1)
MaxParityArg == 4
MaxUartArg == 9
MaxAirArg == 8
MaxPowerArg == 4

-----------------------------------------------------------------------------
(* Program constants *)

InitAuxMs1 == 4000
InitAuxMs2 == 3000
NormalAuxMs1 == 4000
NormalAuxMs2 == 3000
EnterAuxMs1 == 5000
EnterAuxMs2 == 4000
WriteAuxMs1 == 4000
WriteAuxMs2 == 3000
ReadCmdAuxMs1 == 3000
ReadCmdAuxMs2 == 2500
RespMs1 == 1200
RespMs2 == 900
EchoMs2 == 250
AuxPollMs == 5
ReadPollMs == 10
RespLen == 6
WriteHeader == 192
ReadCmdByte == 193
AltHeader == 194
NewLine == 10
B9600 == 3
CfgBaud == 9600
UsbBaud == 115200
DefaultChannel == 23

InitAuxMs == IF variant = 1 THEN InitAuxMs1 ELSE InitAuxMs2
NormalAuxMs == IF variant = 1 THEN NormalAuxMs1 ELSE NormalAuxMs2
EnterAuxMs == IF variant = 1 THEN EnterAuxMs1 ELSE EnterAuxMs2
WriteAuxMs == IF variant = 1 THEN WriteAuxMs1 ELSE WriteAuxMs2
ReadCmdAuxMs == IF variant = 1 THEN ReadCmdAuxMs1 ELSE ReadCmdAuxMs2
RespMs == IF variant = 1 THEN RespMs1 ELSE RespMs2

Null == <<>>

-----------------------------------------------------------------------------
(* Bit arithmetic on non-negative integers, as the code's &, | and <<. *)

RECURSIVE BitAnd(_, _)
BitAnd(x, y) ==
    IF x = 0 \/ y = 0 THEN 0
    ELSE (IF x % 2 = 1 /\ y % 2 = 1 THEN 1 ELSE 0) + 2 * BitAnd(x \div 2, y \div 2)

RECURSIVE BitOr(_, _)
BitOr(x, y) ==
    IF x = 0 THEN y
    ELSE IF y = 0 THEN x
    ELSE (IF x % 2 = 1 \/ y % 2 = 1 THEN 1 ELSE 0) + 2 * BitOr(x \div 2, y \div 2)

RECURSIVE Shl(_, _)
Shl(x, k) == IF k = 0 THEN x ELSE Shl(2 * x, k - 1)

\* mutant of SpedByte: uart is not masked
SpedByteUartUnmasked(parity, u, air) ==
    BitOr(BitOr(Shl(BitAnd(parity, 3), 6), Shl(u, 3)), BitAnd(air, 7))

\* applyConfig: const sped = ((parity & 0x03) << 6) | ((uart & 0x07) << 3) | (air & 0x07)
SpedByte(parity, u, air) ==
    BitOr(BitOr(Shl(BitAnd(parity, 3), 6), Shl(BitAnd(u, 7), 3)), BitAnd(air, 7))

\* mutant of OptionByte: the Fixed flag is put on bit 1
OptionByteFlagBit1(p, mode) ==
    LET o1 == BitOr(0, BitAnd(p, 3))
    IN  IF mode = 1 THEN BitOr(o1, Shl(1, 1)) ELSE o1

\* applyConfig: option |= (p & 0x03); if (mode == TxMode.Fixed) option |= (1 << 2)
OptionByte(p, mode) ==
    LET o1 == BitOr(0, BitAnd(p, 3))
    IN  IF mode = 1 THEN BitOr(o1, Shl(1, 2)) ELSE o1

\* the five bytes applyConfig writes after the header
Attempted(a) ==
    << BitAnd(a.addh, 255), BitAnd(a.addl, 255), BitAnd(a.ch, 255),
       BitAnd(SpedByte(a.parity, a.uart, a.air), 255),
       BitAnd(OptionByte(a.p, a.mode), 255) >>

\* mutant of WriteFrame: the frame starts with the alternate header
WriteFrameAltHeader(a) == <<AltHeader>> \o Attempted(a)

\* applyConfig: the 6-byte frame
WriteFrame(a) == <<WriteHeader>> \o Attempted(a)

\* readParamsWhileInConfigMode: cmd
ReadCmd == <<ReadCmdByte, ReadCmdByte, ReadCmdByte>>

BaudRateFromUart(u) ==
    CASE u = 0 -> 1200
      [] u = 1 -> 2400
      [] u = 2 -> 4800
      [] u = 3 -> 9600
      [] u = 4 -> 19200
      [] u = 5 -> 38400
      [] u = 6 -> 57600
      [] u = 7 -> 115200
      [] OTHER -> 9600


-----------------------------------------------------------------------------
(* Decisions of the code, one operator each *)

\* mutant of ErrIfEmpty: the fallback message is never stored
ErrIfEmptyKeep(err, m) == err

\* if (_lastError == "") _lastError = msg
ErrIfEmpty(err, m) == IF err = "" THEN m ELSE err

\* finishFailSafe (variant 1; variant 2 has no such function)
FinishFailSafe(err, ok, stg) ==
    IF variant = 1 /\ ~ok /\ err = ""
    THEN "Failed (stage " \o ToString(stg) \o ")"
    ELSE err

\* mutant of Payload: copies from the header on
PayloadFromHeader(resp) == [i \in 1..5 |-> resp[i]]

\* for (let i = 0; i < 5; i++) _lastCfg[i] = readback[i + 1]
Payload(resp) == [i \in 1..5 |-> resp[i + 1]]

\* applyConfig: readback && readback.length >= 6 && readback[0] == 0xC0
ReadbackAccepted(rb) == rb # Null /\ Len(rb) >= RespLen /\ rb[1] = WriteHeader

\* mutant of EchoPlausible: only the write header counts
EchoPlausibleWriteOnly(e) == e # Null /\ Len(e) >= RespLen /\ e[1] = WriteHeader

\* applyConfig (variant 2): echo && echo.length >= 6 && (echo[0] == 0xC0 || echo[0] == 0xC2)
EchoPlausible(e) ==
    e # Null /\ Len(e) >= RespLen /\ (e[1] = WriteHeader \/ e[1] = AltHeader)

\* mutant of RespShort: a response of exactly 6 bytes counts as short
RespShortOffByOne(resp) == resp = Null \/ Len(resp) <= RespLen

\* readConfig: !resp || resp.length < 6
RespShort(resp) == resp = Null \/ Len(resp) < RespLen

\* mutant of RespAccepted: the alternate header is accepted too
RespAcceptedAlt(resp) ==
    (resp[1] = WriteHeader \/ resp[1] = AltHeader) /\ Len(resp) >= RespLen

\* readConfig: resp[0] == 0xC0 && resp.length >= 6
RespAccepted(resp) == resp[1] = WriteHeader /\ Len(resp) >= RespLen

\* mutant of EnterOk: the result of enterConfigMode is not tested
EnterOkIgnored(res) == TRUE

\* enterConfigMode's result, as applyConfig and readConfig test it
EnterOk(res) == res

\* mutant of NormalLevels: M0 is left high
NormalLevelsM0High == [m0 |-> 1, m1 |-> 0]

\* the levels setWorkModeNormal writes to M0 and M1
NormalLevels == [m0 |-> 0, m1 |-> 0]

\* mutant of ConfigLevels: M1 is left low
ConfigLevelsM1Low == [m0 |-> 1, m1 |-> 0]

\* the levels enterConfigMode writes to M0 and M1
ConfigLevels == [m0 |-> 1, m1 |-> 1]

\* serial.redirect(LORA_TX, LORA_RX, rate)
LoRaUart(rate) == [tx |-> "P14", rx |-> "P15", baud |-> rate]

\* serial.redirectToUSB(): the USB pins at the USB link's speed
UsbUart == [tx |-> "usb", rx |-> "usb", baud |-> UsbBaud]

\* mutant of ConfigUart: the config channel is used at the normal-mode speed
ConfigUartKeepsSpeed(cur) == LoRaUart(BaudRateFromUart(cur))

\* enterConfigMode: serial.redirect(LORA_TX, LORA_RX, BaudRate.BaudRate9600)
ConfigUart(cur) == LoRaUart(CfgBaud)

\* mutant of NormalUart: normal mode always runs at the config speed
NormalUartFixed(cur) == LoRaUart(CfgBaud)

\* setWorkModeNormal: serial.redirect(LORA_TX, LORA_RX, baudRateFromUart(_currentUart))
NormalUart(cur) == LoRaUart(BaudRateFromUart(cur))

\* mutant of ResetStatus: the status of the previous transaction is kept
ResetStatusKeep(err, ok) == [err |-> err, ok |-> ok]

\* applyConfig, readConfig: _lastError = ""; _cfgOk = false
ResetStatus(err, ok) == [err |-> "", ok |-> FALSE]

\* mutant of InstallCount: every call registers one more function
InstallCountAlways(installed, n) == n + 1

\* installReceiverOnce: if (_receiverInstalled) return; ... serial.onDataReceived(...)
InstallCount(installed, n) == IF installed THEN n ELSE n + 1

\* mutant of SendHeader: the cache is ignored
SendHeaderDefault(cfg) == <<0, 0, DefaultChannel>>

\* sendString: addh, addl, ch of the header
SendHeader(cfg) ==
    IF cfg # Null /\ Len(cfg) >= 3 THEN <<cfg[1], cfg[2], cfg[3]>>
    ELSE <<0, 0, DefaultChannel>>

\* mutant of FixedHeader: the arguments are not masked
FixedHeaderUnmasked(a) == <<a.addh, a.addl, a.ch>>

\* sendFixed: hdr[0] = addh & 0xff; hdr[1] = addl & 0xff; hdr[2] = ch & 0xff
FixedHeader(a) == <<BitAnd(a.addh, 255), BitAnd(a.addl, 255), BitAnd(a.ch, 255)>>

\* if (_useLineMode) msg = msg + "\n"
Framed(text, lineMode) == IF lineMode THEN text \o <<NewLine>> ELSE text

\* serial.writeString(msg): the characters of msg as UTF-8 bytes (code points
\* below 2048)
RECURSIVE StringBytes(_)
StringBytes(text) ==
    IF text = <<>> THEN <<>>
    ELSE LET c == Head(text)
         IN  (IF c < 128 THEN <<c>> ELSE <<192 + (c \div 64), 128 + (c % 64)>>)
             \o StringBytes(Tail(text))

\* init, variant 1: serial.redirect(LORA_RX, LORA_TX, rate); variant 2: (LORA_TX, LORA_RX, rate)
InitUart(rate) ==
    IF variant = 1 THEN [tx |-> "P15", rx |-> "P14", baud |-> rate]
    ELSE LoRaUart(rate)

\* the cache after applyConfig's verification step
ApplyCache(old, a, rb) ==
    IF ReadbackAccepted(rb) THEN Payload(rb)
    ELSE IF variant = 2 THEN Attempted(a)      \* cacheCfg(...) before the test
    ELSE old

\* mutant of ReadCache: a failed read clears the cache
ReadCacheClearing(old, resp) ==
    IF ~RespShort(resp) /\ RespAccepted(resp) THEN Payload(resp) ELSE Null

\* the cache after readConfig's verification step
ReadCache(old, resp) ==
    IF ~RespShort(resp) /\ RespAccepted(resp) THEN Payload(resp) ELSE old

\* the error messages of the two variants
MsgApplyEnter == IF variant = 1 THEN "applyConfig: enter config mode failed"
                 ELSE "Failed to enter config mode"
MsgReadEnter == IF variant = 1 THEN "readConfig: enter config mode failed"
                ELSE "Failed to enter config mode"
MsgEnterTimeout == "Timeout entering config mode (AUX)"
MsgWriteTimeout == IF variant = 1 THEN "applyConfig: AUX timeout after write"
                   ELSE "Timeout waiting AUX after write"
MsgCmdTimeout == "Timeout waiting AUX after read cmd"
MsgNoBytes == "No bytes received from module"
MsgNoReadback == IF variant = 1 THEN "applyConfig: write done but no readback"
                 ELSE "Config write failed (no echo, no readback)"
MsgEchoOk == "No readback; echo ok (likely configured)"
MsgShort == IF variant = 1 THEN "readConfig: no/short response"
            ELSE "No/short config response"
MsgHeader(b) == IF variant = 1 THEN "readConfig: unexpected header " \o ToString(b)
                ELSE "Unexpected config header: " \o ToString(b)

-----------------------------------------------------------------------------
(* Inputs *)

ApplyInputs ==
    { [addh |-> 0, addl |-> 0, ch |-> 23, p |-> 0, uart |-> 3, parity |-> 0,
       air |-> 1, mode |-> 0],
      [addh |-> 5, addl |-> 6, ch |-> 263, p |-> 3, uart |-> 7, parity |-> 2,
       air |-> 5, mode |-> 1] }

NoArgs == [addh |-> 0, addl |-> 0, ch |-> 0, p |-> 0, uart |-> 0, parity |-> 0,
           air |-> 0, mode |-> 0]

\* what the module may send after a read request
Responses ==
    { <<>>, <<153, 1>>,
      <<192, 1, 2, 10, 26, 5>>, <<194, 1, 2, 3, 4, 5>>, <<153, 1, 2, 3, 4, 5>> }

\* what the module may send after a write frame
Echoes(a) == { <<>>, WriteFrame(a), <<AltHeader>> \o Attempted(a) }

Handlers == {1, 2}

\* the address and channel arguments given to the packing
AddrArgs == { <<0, 0, 23>>, <<255, 256, 263>>, <<-1, 300, 0>> }

\* the arguments given to the packing, in and out of the enums' ranges
CodecInputs ==
    { [addh |-> t[1], addl |-> t[2], ch |-> t[3], p |-> pw, uart |-> u,
       parity |-> pa, air |-> ai, mode |-> mo] :
        t \in AddrArgs, pw \in (-1)..MaxPowerArg, u \in (-1)..MaxUartArg,
        pa \in (-1)..MaxParityArg, ai \in (-1)..MaxAirArg, mo \in {0, 1} }

\* the strings given to sendString and sendFixed, as character codes
Texts == { <<104, 105>>, <<233>> }

\* the address and channel arguments of sendFixed
FixedTargets ==
    { [NoArgs EXCEPT !.addh = 7, !.addl = 8, !.ch = 9],
      [NoArgs EXCEPT !.addh = 261, !.addl = 0, !.ch = 23] }

\* the lines that arrive on the UART while the driver is idle
Lines == { <<111, 107, 10>> }

-----------------------------------------------------------------------------
(* Helpers *)

Min(a, b) == IF a < b THEN a ELSE b

Take(s, k) == SubSeq(s, 1, Min(k, Len(s)))
Drop(s, k) == SubSeq(s, Min(k, Len(s)) + 1, Len(s))

Range(s) == { s[i] : i \in 1..Len(s) }

\* basic.pause(ms) seen from the caller's clock: the wake-up time
NextWake(e, ms) == ((e + ms + SchedTickMs - 1) \div SchedTickMs) * SchedTickMs

\* the driver fiber is idle or inside basic.pause
Yielding == pc \in {"idle", "pause"} \/ (pc = "wait" /\ elapsed > 0)

Return == pc' = Head(ret) /\ ret' = Tail(ret)

\* const start = control.millis() of waitAuxHigh(t); continue at cont
CallWait(t, cont) ==
    /\ pc' = "wait" /\ tmo' = t /\ elapsed' = 0 /\ ret' = <<cont>> \o ret
    /\ UNCHANGED rbN

\* readBytesWithTimeout(k, t): start, buf = createBuffer(0); continue at cont
CallReadBytes(k, t, cont) ==
    /\ pc' = "rb" /\ tmo' = t /\ elapsed' = 0 /\ rbN' = k /\ ret' = <<cont>> \o ret
    /\ buf' = <<>>

\* setWorkModeNormal: pins.digitalWritePin(PIN_M0, 0); continue at cont after
\* the function
BeginNormal(cont) ==
    /\ m0' = NormalLevels.m0
    /\ pc' = "swn_m1" /\ ret' = <<"swn_w", cont>> \o ret
    /\ UNCHANGED <<m1, uart, elapsed, tmo, rbN>>

\* enterConfigMode: pins.digitalWritePin(PIN_M0, 1); continue at cont after
\* the function
BeginEnter(cont) ==
    /\ m0' = ConfigLevels.m0
    /\ pc' = "ecm_m1" /\ ret' = <<"ecm_w", cont>> \o ret
    /\ UNCHANGED <<m1, uart, elapsed, tmo, rbN>>

\* serial.writeBuffer(bytes)
Written(bytes) == Append(txLog, [bytes |-> bytes, baud |-> uart.baud, m0 |-> m0, m1 |-> m1])

\* two serial writes in a row
Written2(b1, b2) ==
    Append(Written(b1), [bytes |-> b2, baud |-> uart.baud, m0 |-> m0, m1 |-> m1])

\* public calls are made while nothing is arriving on the UART
LineQuiet == wire = <<>> /\ rxBuf = <<>> /\ ~evtPending

StartCallWith(name, a, text) ==
    /\ pc = "idle" /\ calls < MaxCalls
    /\ LineQuiet
    /\ op' = name /\ calls' = calls + 1 /\ args' = a /\ msg' = text
    /\ frame' = Null
    /\ preCfg' = lastCfg /\ preUart' = currentUart /\ preFailed' = (lastError # "")
    /\ retVal' = 0 /\ UNCHANGED initRuns
    /\ txLog' = <<>> /\ callLog' = <<>> /\ lsnLog' = <<>> /\ lineCnt' = 0
    /\ waitRes' = FALSE /\ enterRes' = FALSE /\ buf' = <<>> /\ rbRes' = Null
    /\ rpRes' = Null /\ echo' = Null /\ readback' = Null
    /\ elapsed' = 0 /\ tmo' = 0 /\ rbN' = 0
    /\ UNCHANGED <<variant, vGlob, vHw, vRx>>

StartCall(name, a) == StartCallWith(name, a, <<>>)

EndCall ==
    /\ pc' = "idle" /\ ret' = <<>> /\ elapsed' = 0 /\ tmo' = 0 /\ rbN' = 0

-----------------------------------------------------------------------------
(* Initial state: main.ts 88-107 (499-513, 1004) *)

Init ==
    /\ variant \in {1, 2}
    /\ inited = FALSE /\ rxHandler = 0 /\ receiverInstalled = FALSE
    /\ fixedMode = FALSE /\ useLineMode = TRUE
    /\ lastCfg = Null /\ currentUart = B9600
    /\ lastError = "" /\ cfgOk = FALSE /\ stage = 0
    /\ listeners = 0
    /\ m0 = 0 /\ m1 = 0 /\ uart = UsbUart
    /\ rxBuf = <<>> /\ wire = <<>> /\ evtPending = FALSE
    /\ pc = "idle" /\ ret = <<>> /\ elapsed = 0 /\ tmo = 0 /\ rbN = 0
    /\ args = NoArgs /\ frame = Null /\ msg = <<>>
    /\ waitRes = FALSE /\ enterRes = FALSE /\ buf = <<>>
    /\ rbRes = Null /\ rpRes = Null /\ echo = Null /\ readback = Null
    /\ op = "none" /\ calls = 0 /\ preCfg = Null /\ preUart = B9600
    /\ preFailed = FALSE
    /\ retVal = 0 /\ initRuns = 0
    /\ txLog = <<>> /\ callLog = <<>> /\ lsnLog = <<>> /\ lineCnt = 0

-----------------------------------------------------------------------------
(* Public calls *)

\* init()
CallInit ==
    /\ StartCall("init", NoArgs)
    /\ pc' = "init_body" /\ ret' = <<"init_ret">>

\* applyConfig(...): ensureInit() first
CallApply ==
    \E a \in ApplyInputs :
        /\ StartCall("apply", a)
        /\ pc' = (IF inited THEN "apply_body" ELSE "init_body")
        /\ ret' = (IF inited THEN <<>> ELSE <<"apply_body">>)

\* readConfig(): ensureInit() first
CallRead ==
    /\ StartCall("read", NoArgs)
    /\ pc' = (IF inited THEN "read_body" ELSE "init_body")
    /\ ret' = (IF inited THEN <<>> ELSE <<"read_body">>)

\* onReceiveString(handler)
CallOnReceive ==
    \E h \in Handlers :
        /\ pc = "idle" /\ calls < MaxCalls
        /\ LineQuiet
        /\ rxHandler' = h /\ receiverInstalled' = TRUE
        /\ listeners' = InstallCount(receiverInstalled, listeners)
        /\ op' = "onReceive" /\ calls' = calls + 1
        /\ lsnLog' = <<>> /\ lineCnt' = 0
        /\ UNCHANGED <<variant, inited, fixedMode, useLineMode, lastCfg, currentUart,
                       lastError, cfgOk, stage, vHw, vRx, vCtl, vLoc,
                       preCfg, preUart, preFailed, retVal, initRuns, txLog, callLog>>

\* serialToLoRa(): ensureInit() first
CallSerialToLoRa ==
    /\ StartCall("serialToLoRa", NoArgs)
    /\ pc' = (IF inited THEN "lora_body" ELSE "init_body")
    /\ ret' = (IF inited THEN <<>> ELSE <<"lora_body">>)

\* serialToLoRa: serial.redirect(LORA_TX, LORA_RX, baudRateFromUart(_currentUart))
SerialToLoRaBody ==
    /\ pc = "lora_body"
    /\ uart' = LoRaUart(BaudRateFromUart(currentUart))
    /\ EndCall
    /\ UNCHANGED <<variant, vGlob, m0, m1, vRx, vLoc, vObs>>

\* serialToUSB(): serial.redirectToUSB()
CallSerialToUSB ==
    /\ pc = "idle" /\ LineQuiet
    /\ uart' = UsbUart
    /\ op' = "serialToUSB"
    /\ UNCHANGED <<variant, vGlob, m0, m1, vRx, vCtl, vLoc,
                   calls, preCfg, preUart, preFailed, retVal, initRuns, txLog, callLog, lsnLog, lineCnt>>

\* setTxMode(mode)
CallSetTxMode ==
    \E mode \in {0, 1} :
        /\ pc = "idle" /\ LineQuiet
        /\ fixedMode' = (mode = 1)
        /\ op' = "setTxMode"
        /\ UNCHANGED <<variant, inited, rxHandler, receiverInstalled, listeners,
                       useLineMode, lastCfg, currentUart, lastError, cfgOk, stage,
                       vHw, vRx, vCtl, vLoc,
                       calls, preCfg, preUart, preFailed, retVal, initRuns, txLog, callLog, lsnLog, lineCnt>>

\* useLineFraming(enabled)
CallUseLineFraming ==
    \E enabled \in BOOLEAN :
        /\ pc = "idle" /\ LineQuiet
        /\ useLineMode' = enabled
        /\ op' = "useLineFraming"
        /\ UNCHANGED <<variant, inited, rxHandler, receiverInstalled, listeners,
                       fixedMode, lastCfg, currentUart, lastError, cfgOk, stage,
                       vHw, vRx, vCtl, vLoc,
                       calls, preCfg, preUart, preFailed, retVal, initRuns, txLog, callLog, lsnLog, lineCnt>>

\* cfgChannel reads the byte of cfgADDL
CfgChannelFromAddl(cfg) == IF cfg # Null /\ Len(cfg) >= 3 THEN cfg[2] ELSE 0

\* cfgADDH(): (_lastCfg && _lastCfg.length >= 1) ? _lastCfg[0] : 0
CfgADDH(cfg) == IF cfg # Null /\ Len(cfg) >= 1 THEN cfg[1] ELSE 0

\* cfgADDL(): (_lastCfg && _lastCfg.length >= 2) ? _lastCfg[1] : 0
CfgADDL(cfg) == IF cfg # Null /\ Len(cfg) >= 2 THEN cfg[2] ELSE 0

\* cfgChannel(): (_lastCfg && _lastCfg.length >= 3) ? _lastCfg[2] : 0
CfgChannel(cfg) == IF cfg # Null /\ Len(cfg) >= 3 THEN cfg[3] ELSE 0

Accessors == {"cfgADDH", "cfgADDL", "cfgChannel"}

\* cfgADDH(), cfgADDL(), cfgChannel(): retVal is the number returned
CallAccessor ==
    \E f \in Accessors :
        /\ pc = "idle" /\ LineQuiet
        /\ retVal' = (CASE f = "cfgADDH" -> CfgADDH(lastCfg)
                        [] f = "cfgADDL" -> CfgADDL(lastCfg)
                        [] f = "cfgChannel" -> CfgChannel(lastCfg))
        /\ op' = f
        /\ UNCHANGED <<variant, vGlob, vHw, vRx, vCtl, vLoc,
                       calls, preCfg, preUart, preFailed, initRuns, txLog, callLog, lsnLog, lineCnt>>

\* sendString(msg): ensureInit() first
CallSendString ==
    \E t \in Texts :
        /\ StartCallWith("sendString", NoArgs, t)
        /\ pc' = (IF inited THEN "send_body" ELSE "init_body")
        /\ ret' = (IF inited THEN <<>> ELSE <<"send_body">>)

\* sendString takes the tx mode from the option byte of the cache as well
HeaderWantedFromCache(fm, cfg) ==
    fm \/ (cfg # Null /\ Len(cfg) >= 5 /\ BitAnd(cfg[5], 4) # 0)

\* sendString: if (_fixedMode)
HeaderWanted(fm, cfg) == fm

\* sendString after ensureInit: the header in Fixed mode, then the body
SendStringBody ==
    /\ pc = "send_body"
    /\ txLog' = (IF HeaderWanted(fixedMode, lastCfg)
                 THEN Written2(SendHeader(lastCfg), StringBytes(Framed(msg, useLineMode)))
                 ELSE Written(StringBytes(Framed(msg, useLineMode))))
    /\ EndCall
    /\ UNCHANGED <<variant, vGlob, vHw, vRx, vLoc,
                   op, calls, preCfg, preUart, preFailed, retVal, initRuns, callLog, lsnLog, lineCnt>>

\* sendFixed(addh, addl, ch, msg): ensureInit() first
CallSendFixed ==
    \E a \in FixedTargets, t \in Texts :
        /\ StartCallWith("sendFixed", a, t)
        /\ pc' = (IF inited THEN "sendfixed_body" ELSE "init_body")
        /\ ret' = (IF inited THEN <<>> ELSE <<"sendfixed_body">>)

\* sendFixed after ensureInit: the given header, then the body
SendFixedBody ==
    /\ pc = "sendfixed_body"
    /\ txLog' = Written2(FixedHeader(args), StringBytes(Framed(msg, useLineMode)))
    /\ EndCall
    /\ UNCHANGED <<variant, vGlob, vHw, vRx, vLoc,
                   op, calls, preCfg, preUart, preFailed, retVal, initRuns, callLog, lsnLog, lineCnt>>

-----------------------------------------------------------------------------
(* init *)

\* init runs its body again on every call
AlreadyInitedNever(i) == FALSE

\* init: if (_inited) return
AlreadyInited(i) == i

\* init: from the _inited test to basic.pause
InitBody ==
    /\ pc = "init_body"
    /\ IF AlreadyInited(inited)
       THEN /\ Return
            /\ UNCHANGED <<vGlob, vHw, elapsed, tmo, rbN, initRuns>>
       ELSE /\ m0' = 0 /\ m1' = 0
            /\ currentUart' = B9600
            /\ uart' = InitUart(BaudRateFromUart(B9600))
            /\ initRuns' = initRuns + 1
            /\ pc' = "pause" /\ ret' = <<"init_w">> \o ret
            /\ UNCHANGED <<inited, rxHandler, receiverInstalled, listeners, fixedMode, useLineMode,
                           lastCfg, lastError, cfgOk, stage, elapsed, tmo, rbN>>
    /\ UNCHANGED <<variant, vRx, vLoc,
                   op, calls, preCfg, preUart, preFailed, retVal, lineCnt, txLog, callLog, lsnLog>>

\* basic.pause(ms) returns
Pause ==
    /\ pc = "pause"
    /\ Return
    /\ UNCHANGED <<variant, vGlob, vHw, vRx, elapsed, tmo, rbN, vLoc, vObs>>

\* init: waitAuxHigh(4000)
InitWait ==
    /\ pc = "init_w"
    /\ CallWait(InitAuxMs, "init_swn")
    /\ UNCHANGED <<variant, vGlob, vHw, vRx, vLoc, vObs>>

\* waitAuxHigh: one turn of the loop
WaitPoll ==
    /\ pc = "wait"
    /\ IF elapsed < tmo
       THEN \E level \in {0, 1} :
               IF level = 1
               THEN /\ waitRes' = TRUE /\ Return /\ UNCHANGED elapsed
               ELSE /\ elapsed' = NextWake(elapsed, AuxPollMs)
                    /\ UNCHANGED <<pc, ret, waitRes>>
       ELSE /\ waitRes' = FALSE /\ Return /\ UNCHANGED elapsed
    /\ UNCHANGED <<variant, vGlob, vHw, vRx, tmo, rbN, args, frame, msg, enterRes, buf, rbRes,
                   rpRes, echo, readback, vObs>>

\* init: setWorkModeNormal() up to its pause (the result of the wait is dropped)
InitNormal ==
    /\ pc = "init_swn"
    /\ BeginNormal("init_fin")
    /\ UNCHANGED <<variant, vGlob, vRx, vLoc, vObs>>

\* setWorkModeNormal: pins.digitalWritePin(PIN_M1, 0); basic.pause(30)
NormalM1 ==
    /\ pc = "swn_m1"
    /\ m1' = NormalLevels.m1
    /\ pc' = "pause"
    /\ UNCHANGED <<variant, vGlob, m0, uart, vRx, ret, elapsed, tmo, rbN, vLoc, vObs>>

\* setWorkModeNormal: waitAuxHigh(4000)
NormalWait ==
    /\ pc = "swn_w"
    /\ CallWait(NormalAuxMs, "swn_fin")
    /\ UNCHANGED <<variant, vGlob, vHw, vRx, vLoc, vObs>>

\* setWorkModeNormal: serial.redirect(..., baudRateFromUart(_currentUart))
NormalFinish ==
    /\ pc = "swn_fin"
    /\ uart' = NormalUart(currentUart)
    /\ callLog' = (IF inited
                   THEN Append(callLog, IF waitRes THEN "normal:ready" ELSE "normal:timeout")
                   ELSE callLog)
    /\ Return
    /\ UNCHANGED <<variant, vGlob, m0, m1, vRx, elapsed, tmo, rbN, vLoc,
                   op, calls, preCfg, preUart, preFailed, retVal, initRuns, lineCnt, txLog, lsnLog>>

\* init: installReceiverOnce() and the status assignments
InitFinish ==
    /\ pc = "init_fin"
    /\ receiverInstalled' = TRUE
    /\ listeners' = InstallCount(receiverInstalled, listeners)
    /\ inited' = TRUE /\ lastError' = "" /\ cfgOk' = TRUE /\ stage' = 0
    /\ callLog' = Append(callLog, "init")
    /\ Return
    /\ UNCHANGED <<variant, rxHandler, fixedMode, useLineMode, lastCfg, currentUart,
                   vHw, vRx, elapsed, tmo, rbN, vLoc,
                   op, calls, preCfg, preUart, preFailed, retVal, initRuns, lineCnt, txLog, lsnLog>>

\* init() returns to its caller
InitReturn ==
    /\ pc = "init_ret"
    /\ EndCall
    /\ UNCHANGED <<variant, vGlob, vHw, vRx, vLoc, vObs>>

-----------------------------------------------------------------------------
(* enterConfigMode, readParamsWhileInConfigMode, readBytesWithTimeout *)

\* enterConfigMode: pins.digitalWritePin(PIN_M1, 1); basic.pause(80)
EnterM1 ==
    /\ pc = "ecm_m1"
    /\ m1' = ConfigLevels.m1
    /\ pc' = "pause"
    /\ UNCHANGED <<variant, vGlob, m0, uart, vRx, ret, elapsed, tmo, rbN, vLoc, vObs>>

\* enterConfigMode: waitAuxHigh(5000)
EnterWait ==
    /\ pc = "ecm_w"
    /\ CallWait(EnterAuxMs, "ecm_fin")
    /\ UNCHANGED <<variant, vGlob, vHw, vRx, vLoc, vObs>>

\* enterConfigMode: after the wait
EnterFinish ==
    /\ pc = "ecm_fin"
    /\ IF ~waitRes
       THEN /\ lastError' = MsgEnterTimeout
            /\ enterRes' = FALSE
            /\ UNCHANGED uart
       ELSE /\ uart' = ConfigUart(currentUart)
            /\ enterRes' = TRUE
            /\ UNCHANGED lastError
    /\ callLog' = Append(callLog, IF waitRes THEN "enter:ready" ELSE "enter:timeout")
    /\ Return
    /\ UNCHANGED <<variant, inited, rxHandler, receiverInstalled, listeners, fixedMode,
                   useLineMode,
                   lastCfg, currentUart, cfgOk, stage, m0, m1, vRx, elapsed, tmo, rbN,
                   args, frame, msg, waitRes, buf, rbRes, rpRes, echo, readback,
                   op, calls, preCfg, preUart, preFailed, retVal, initRuns, lineCnt, txLog, lsnLog>>

\* readParamsWhileInConfigMode up to its waitAuxHigh; continue at cont.
\* serial.readString() empties the receive buffer; the module answers the
\* request with any of Responses.
BeginReadParams(cont) ==
    /\ rxBuf' = <<>>
    /\ txLog' = Written(ReadCmd)
    /\ \E r \in Responses : wire' = wire \o r
    /\ pc' = "wait" /\ tmo' = ReadCmdAuxMs /\ elapsed' = 0
    /\ ret' = <<"rp_waited", cont>> \o ret
    /\ UNCHANGED <<rbN, evtPending>>

\* readParamsWhileInConfigMode: after the wait
ReadParamsWaited ==
    /\ pc = "rp_waited"
    /\ IF ~waitRes
       THEN /\ lastError' = ErrIfEmpty(lastError, MsgCmdTimeout)
            /\ rpRes' = Null
            /\ Return
            /\ UNCHANGED <<elapsed, tmo, rbN, buf>>
       ELSE /\ CallReadBytes(RespLen, RespMs, "rp_read")
            /\ UNCHANGED <<lastError, rpRes>>
    /\ callLog' = Append(callLog, IF waitRes THEN "cmd:ready" ELSE "cmd:timeout")
    /\ UNCHANGED <<variant, inited, rxHandler, receiverInstalled, listeners, fixedMode, useLineMode,
                   lastCfg, currentUart, cfgOk, stage, vHw, vRx,
                   args, frame, msg, waitRes, enterRes, rbRes, echo, readback,
                   op, calls, preCfg, preUart, preFailed, retVal, initRuns, lineCnt, txLog, lsnLog>>

\* readParamsWhileInConfigMode: after readBytesWithTimeout(6, 1200)
ReadParamsRead ==
    /\ pc = "rp_read"
    /\ IF variant = 1 /\ (rbRes = Null \/ Len(rbRes) = 0)
       THEN /\ lastError' = ErrIfEmpty(lastError, MsgNoBytes)
            /\ rpRes' = Null
       ELSE /\ rpRes' = rbRes
            /\ UNCHANGED lastError
    /\ Return
    /\ UNCHANGED <<variant, inited, rxHandler, receiverInstalled, listeners, fixedMode, useLineMode,
                   lastCfg, currentUart, cfgOk, stage, vHw, vRx, elapsed, tmo, rbN,
                   args, frame, msg, waitRes, enterRes, buf, rbRes, echo, readback, vObs>>

\* every read asks for the whole n bytes
ReadLenFull(n, len) == n

\* readBytesWithTimeout: the length given to serial.readBuffer, n - buf.length
ReadLen(n, len) == n - len

\* the loop goes on whatever the clock says
ReadTimeLeftAlways(e, t) == TRUE

\* readBytesWithTimeout: control.millis() - start < timeoutMs
ReadTimeLeft(e, t) == e < t

\* readBytesWithTimeout: one turn of the loop, and the return after it
ReadBytesPoll ==
    /\ pc = "rb"
    /\ IF ReadTimeLeft(elapsed, tmo) /\ Len(buf) < rbN
       THEN LET b == Take(rxBuf, ReadLen(rbN, Len(buf)))  \* serial.readBuffer(n - buf.length)
            IN  IF Len(b) > 0
                THEN /\ buf' = buf \o b              \* bufferConcat
                     /\ rxBuf' = Drop(rxBuf, ReadLen(rbN, Len(buf)))
                     /\ UNCHANGED <<pc, ret, elapsed, rbRes>>
                ELSE /\ elapsed' = NextWake(elapsed, ReadPollMs)
                     /\ pc' = "pause" /\ ret' = <<"rb">> \o ret
                     /\ UNCHANGED <<buf, rxBuf, rbRes>>
       ELSE /\ rbRes' = (IF Len(buf) = 0 THEN Null ELSE buf)
            /\ Return
            /\ UNCHANGED <<buf, rxBuf, elapsed>>
    /\ UNCHANGED <<variant, vGlob, vHw, wire, evtPending, tmo, rbN,
                   args, frame, msg, waitRes, enterRes, rpRes, echo, readback, vObs>>

-----------------------------------------------------------------------------
(* applyConfig *)

\* applyConfig: status reset, packing, enterConfigMode up to its pause
ApplyBody ==
    /\ pc = "apply_body"
    /\ lastError' = ResetStatus(lastError, cfgOk).err
    /\ cfgOk' = ResetStatus(lastError, cfgOk).ok
    /\ stage' = (IF variant = 1 THEN 11 ELSE stage)
    /\ BeginEnter("apply_entered")
    /\ UNCHANGED <<variant, inited, rxHandler, receiverInstalled, listeners, fixedMode, useLineMode,
                   lastCfg, currentUart, vRx, vLoc, vObs>>

\* applyConfig: after enterConfigMode; the write frame and waitAuxHigh(4000)
ApplyEntered ==
    /\ pc = "apply_entered"
    /\ IF ~EnterOk(enterRes)
       THEN /\ lastError' = ErrIfEmpty(lastError, MsgApplyEnter)
            /\ BeginNormal("fail_fin")
            /\ UNCHANGED <<stage, txLog, wire, frame>>
       ELSE /\ stage' = (IF variant = 1 THEN 13 ELSE stage)
            /\ frame' = WriteFrame(args)
            /\ txLog' = Written(WriteFrame(args))
            /\ \E e \in Echoes(args) : wire' = wire \o e
            /\ CallWait(WriteAuxMs, "apply_written")
            /\ UNCHANGED <<lastError, vHw>>
    /\ UNCHANGED <<variant, inited, rxHandler, receiverInstalled, listeners, fixedMode,
                   useLineMode,
                   lastCfg, currentUart, cfgOk, rxBuf, evtPending,
                   args, msg, waitRes, enterRes, buf, rbRes, rpRes, echo, readback,
                   op, calls, preCfg, preUart, preFailed, retVal, initRuns, lineCnt, callLog, lsnLog>>

\* applyConfig goes on whatever the wait after the write returned
WriteReadyIgnored(res) == TRUE

\* applyConfig: if (!waitAuxHigh(4000)) after serial.writeBuffer(frame)
WriteReady(res) == res

\* applyConfig: after the wait that follows the write
ApplyWritten ==
    /\ pc = "apply_written"
    /\ callLog' = Append(callLog, IF waitRes THEN "write:ready" ELSE "write:timeout")
    /\ IF ~WriteReady(waitRes)
       THEN /\ lastError' = MsgWriteTimeout
            /\ BeginNormal("fail_fin")
            /\ UNCHANGED <<stage, vRx, txLog, buf>>
       ELSE IF variant = 1
            THEN /\ stage' = 14
                 /\ BeginReadParams("apply_readback")
                 /\ UNCHANGED <<lastError, vHw, buf>>
            ELSE /\ CallReadBytes(RespLen, EchoMs2, "apply_echoed")
                 /\ UNCHANGED <<lastError, stage, vHw, vRx, txLog>>
    /\ UNCHANGED <<variant, inited, rxHandler, receiverInstalled, listeners, fixedMode, useLineMode,
                   lastCfg, currentUart, cfgOk,
                   args, frame, msg, waitRes, enterRes, rbRes, rpRes, echo, readback,
                   op, calls, preCfg, preUart, preFailed, retVal, initRuns, lineCnt, lsnLog>>

\* applyConfig (variant 2): const echo = readBytesWithTimeout(6, 250), then
\* readParamsWhileInConfigMode
ApplyEchoed ==
    /\ pc = "apply_echoed"
    /\ echo' = rbRes
    /\ BeginReadParams("apply_readback")
    /\ UNCHANGED <<variant, vGlob, vHw, args, frame, msg, waitRes, enterRes, buf, rbRes, rpRes,
                   readback, op, calls, preCfg, preUart, preFailed, retVal, initRuns, lineCnt, callLog, lsnLog>>

\* applyConfig: const readback = ...; exitConfigMode() up to its pause
ApplyReadback ==
    /\ pc = "apply_readback"
    /\ readback' = rpRes
    /\ BeginNormal("apply_verify")
    /\ UNCHANGED <<variant, vGlob, vRx, args, frame, msg, waitRes, enterRes, buf, rbRes, rpRes,
                   echo, vObs>>

\* applyConfig: after exitConfigMode, the verification
ApplyVerify ==
    /\ pc = "apply_verify"
    /\ lastCfg' = ApplyCache(lastCfg, args, readback)
    /\ IF ReadbackAccepted(readback)
       THEN /\ cfgOk' = TRUE
            /\ currentUart' = args.uart
            /\ uart' = LoRaUart(BaudRateFromUart(args.uart))
            /\ stage' = 0
            /\ UNCHANGED lastError
       ELSE IF variant = 2 /\ EchoPlausible(echo)
            THEN /\ cfgOk' = TRUE
                 /\ lastError' = MsgEchoOk
                 /\ currentUart' = args.uart
                 /\ uart' = LoRaUart(BaudRateFromUart(args.uart))
                 /\ UNCHANGED stage
            ELSE /\ cfgOk' = FALSE
                 /\ lastError' = FinishFailSafe(ErrIfEmpty(lastError, MsgNoReadback),
                                                FALSE, stage)
                 /\ UNCHANGED <<currentUart, uart, stage>>
    /\ EndCall
    /\ UNCHANGED <<variant, inited, rxHandler, receiverInstalled, listeners, fixedMode, useLineMode,
                   m0, m1, vRx, vLoc, vObs>>

\* the failure returns of applyConfig and readConfig after exitConfigMode:
\* finishFailSafe(); return
FailFinish ==
    /\ pc = "fail_fin"
    /\ lastError' = FinishFailSafe(lastError, cfgOk, stage)
    /\ EndCall
    /\ UNCHANGED <<variant, inited, rxHandler, receiverInstalled, listeners, fixedMode, useLineMode,
                   lastCfg, currentUart, cfgOk, stage, vHw, vRx, vLoc, vObs>>

-----------------------------------------------------------------------------
(* readConfig *)

\* readConfig: status reset, enterConfigMode up to its pause
ReadBody ==
    /\ pc = "read_body"
    /\ lastError' = ResetStatus(lastError, cfgOk).err
    /\ cfgOk' = ResetStatus(lastError, cfgOk).ok
    /\ stage' = (IF variant = 1 THEN 21 ELSE stage)
    /\ BeginEnter("read_entered")
    /\ UNCHANGED <<variant, inited, rxHandler, receiverInstalled, listeners, fixedMode, useLineMode,
                   lastCfg, currentUart, vRx, vLoc, vObs>>

\* readConfig: after enterConfigMode
ReadEntered ==
    /\ pc = "read_entered"
    /\ IF ~EnterOk(enterRes)
       THEN /\ lastError' = ErrIfEmpty(lastError, MsgReadEnter)
            /\ BeginNormal("fail_fin")
            /\ UNCHANGED <<stage, vRx, txLog>>
       ELSE /\ stage' = (IF variant = 1 THEN 22 ELSE stage)
            /\ BeginReadParams("read_resp")
            /\ UNCHANGED <<lastError, vHw>>
    /\ UNCHANGED <<variant, inited, rxHandler, receiverInstalled, listeners, fixedMode, useLineMode,
                   lastCfg, currentUart, cfgOk, vLoc,
                   op, calls, preCfg, preUart, preFailed, retVal, initRuns, lineCnt, callLog, lsnLog>>

\* readConfig: const resp = ...; exitConfigMode() up to its pause
\* (resp is kept in readback)
ReadResp ==
    /\ pc = "read_resp"
    /\ readback' = rpRes
    /\ BeginNormal("read_verify")
    /\ UNCHANGED <<variant, vGlob, vRx, args, frame, msg, waitRes, enterRes, buf, rbRes, rpRes,
                   echo, vObs>>

\* readConfig: after exitConfigMode, the classification of resp
ReadVerify ==
    /\ pc = "read_verify"
    /\ lastCfg' = ReadCache(lastCfg, readback)
    /\ IF RespShort(readback)
       THEN /\ lastError' = (IF variant = 1
                             THEN FinishFailSafe(ErrIfEmpty(lastError, MsgShort), cfgOk, 23)
                             ELSE MsgShort)
            /\ stage' = (IF variant = 1 THEN 23 ELSE stage)
            /\ UNCHANGED cfgOk
       ELSE IF RespAccepted(readback)
            THEN /\ cfgOk' = TRUE
                 /\ stage' = 0
                 /\ UNCHANGED lastError
            ELSE /\ cfgOk' = FALSE
                 /\ lastError' = FinishFailSafe(MsgHeader(readback[1]), FALSE, 23)
                 /\ stage' = (IF variant = 1 THEN 23 ELSE stage)
    /\ EndCall
    /\ UNCHANGED <<variant, inited, rxHandler, receiverInstalled, listeners, fixedMode, useLineMode,
                   currentUart, vHw, vRx, vLoc, vObs>>

-----------------------------------------------------------------------------
(* The UART input and the line listener *)

\* bytes in flight reach the receive buffer; a newline among them raises the
\* serial.onDataReceived event when the listener is installed
Deliver ==
    /\ Len(wire) > 0
    /\ \E k \in {Min(ChunkLen, Len(wire)), Len(wire)} :
          /\ rxBuf' = rxBuf \o Take(wire, k)
          /\ wire' = Drop(wire, k)
          /\ evtPending' = (evtPending \/ (receiverInstalled /\ NewLine \in Range(Take(wire, k))))
    /\ UNCHANGED <<variant, vGlob, vHw, vCtl, vLoc, vObs>>

\* a newline-terminated line arrives while the driver is idle and a listener
\* is installed
InputLine ==
    /\ pc = "idle" /\ LineQuiet /\ receiverInstalled
    /\ lineCnt < MaxLines
    /\ \E l \in Lines : wire' = l
    /\ lineCnt' = lineCnt + 1
    /\ UNCHANGED <<variant, vGlob, vHw, rxBuf, evtPending, vCtl, vLoc,
                   op, calls, preCfg, preUart, preFailed, retVal, initRuns, txLog, callLog, lsnLog>>

\* installReceiverOnce: the function given to serial.onDataReceived
Listener ==
    /\ receiverInstalled /\ evtPending
    /\ Yielding
    /\ Len(lsnLog) < MaxLsn
    /\ rxBuf' = <<>>                         \* const s = serial.readString()
    /\ evtPending' = FALSE
    /\ lsnLog' = lsnLog \o [i \in 1..listeners |->
                               [inCall |-> pc # "idle", op |-> op,
                                s |-> IF i = 1 THEN rxBuf ELSE <<>>,
                                h |-> rxHandler]]
    /\ UNCHANGED <<variant, vGlob, vHw, wire, vCtl, vLoc,
                   op, calls, preCfg, preUart, preFailed, retVal, initRuns, lineCnt, txLog, callLog>>

-----------------------------------------------------------------------------

Next ==
    \/ CallInit \/ CallApply \/ CallRead \/ CallOnReceive
    \/ CallSerialToLoRa \/ CallSerialToUSB
    \/ CallAccessor \/ SerialToLoRaBody
    \/ InitBody \/ Pause \/ InitWait \/ WaitPoll \/ InitNormal \/ NormalM1 \/ NormalWait
    \/ NormalFinish \/ InitFinish \/ InitReturn
    \/ EnterM1 \/ EnterWait \/ EnterFinish
    \/ ReadParamsWaited \/ ReadParamsRead \/ ReadBytesPoll
    \/ ApplyBody \/ ApplyEntered \/ ApplyWritten \/ ApplyEchoed \/ ApplyReadback
    \/ ApplyVerify \/ FailFinish
    \/ ReadBody \/ ReadEntered \/ ReadResp \/ ReadVerify
    \/ Deliver \/ Listener

Spec == Init /\ [][Next]_vars

\* the messaging layer, with init and readConfig
NextMsg ==
    \/ CallInit \/ CallRead \/ CallOnReceive
    \/ CallSetTxMode \/ CallUseLineFraming
    \/ CallSendString \/ SendStringBody \/ CallSendFixed \/ SendFixedBody
    \/ InputLine
    \/ InitBody \/ Pause \/ InitWait \/ WaitPoll \/ InitNormal \/ NormalM1 \/ NormalWait
    \/ NormalFinish \/ InitFinish \/ InitReturn
    \/ EnterM1 \/ EnterWait \/ EnterFinish
    \/ ReadParamsWaited \/ ReadParamsRead \/ ReadBytesPoll
    \/ ReadBody \/ ReadEntered \/ ReadResp \/ ReadVerify \/ FailFinish
    \/ Deliver \/ Listener

SpecMsg == Init /\ [][NextMsg]_vars

\* applyConfig called on a fresh driver with any of CodecInputs
InitCodec ==
    /\ variant \in {1, 2}
    /\ inited = FALSE /\ rxHandler = 0 /\ receiverInstalled = FALSE
    /\ fixedMode = FALSE /\ useLineMode = TRUE
    /\ lastCfg = Null /\ currentUart = B9600
    /\ lastError = "" /\ cfgOk = FALSE /\ stage = 0
    /\ listeners = 0
    /\ m0 = 0 /\ m1 = 0 /\ uart = UsbUart
    /\ rxBuf = <<>> /\ wire = <<>> /\ evtPending = FALSE
    /\ pc = "pack" /\ ret = <<>> /\ elapsed = 0 /\ tmo = 0 /\ rbN = 0
    /\ args \in CodecInputs /\ frame = Null /\ msg = <<>>
    /\ waitRes = FALSE /\ enterRes = FALSE /\ buf = <<>>
    /\ rbRes = Null /\ rpRes = Null /\ echo = Null /\ readback = Null
    /\ op = "apply" /\ calls = 1 /\ preCfg = Null /\ preUart = B9600
    /\ preFailed = FALSE
    /\ retVal = 0 /\ initRuns = 0
    /\ txLog = <<>> /\ callLog = <<>> /\ lsnLog = <<>> /\ lineCnt = 0

\* applyConfig: sped, option and the six bytes of frame
PackFrame ==
    /\ pc = "pack"
    /\ frame' = WriteFrame(args)
    /\ pc' = "packed"
    /\ UNCHANGED <<variant, vGlob, vHw, vRx, ret, elapsed, tmo, rbN,
                   args, msg, waitRes, enterRes, buf, rbRes, rpRes, echo, readback, vObs>>

NextCodec == PackFrame

SpecCodec == InitCodec /\ [][NextCodec]_vars

-----------------------------------------------------------------------------
(* the transactions together with the messaging operations and the setters *)

NextAll ==
    \/ CallInit \/ CallApply \/ CallRead
    \/ CallSerialToLoRa \/ SerialToLoRaBody
    \/ CallSetTxMode \/ CallUseLineFraming
    \/ CallSendString \/ SendStringBody \/ CallSendFixed \/ SendFixedBody
    \/ InitBody \/ Pause \/ InitWait \/ WaitPoll \/ InitNormal \/ NormalM1 \/ NormalWait
    \/ NormalFinish \/ InitFinish \/ InitReturn
    \/ EnterM1 \/ EnterWait \/ EnterFinish
    \/ ReadParamsWaited \/ ReadParamsRead \/ ReadBytesPoll
    \/ ApplyBody \/ ApplyEntered \/ ApplyWritten \/ ApplyEchoed \/ ApplyReadback
    \/ ApplyVerify \/ FailFinish
    \/ ReadBody \/ ReadEntered \/ ReadResp \/ ReadVerify
    \/ Deliver \/ Listener

SpecAll == Init /\ [][NextAll]_vars

-----------------------------------------------------------------------------
(* init, applyConfig and readConfig with a driver fiber that keeps running *)

\* a step of the driver's fiber
Driver ==
    \/ InitBody \/ Pause \/ InitWait \/ WaitPoll \/ InitNormal \/ NormalM1 \/ NormalWait
    \/ NormalFinish \/ InitFinish \/ InitReturn
    \/ EnterM1 \/ EnterWait \/ EnterFinish
    \/ ReadParamsWaited \/ ReadParamsRead \/ ReadBytesPoll
    \/ ApplyBody \/ ApplyEntered \/ ApplyWritten \/ ApplyEchoed \/ ApplyReadback
    \/ ApplyVerify \/ FailFinish
    \/ ReadBody \/ ReadEntered \/ ReadResp \/ ReadVerify

NextLive ==
    \/ CallInit \/ CallApply \/ CallRead
    \/ InitBody \/ Pause \/ InitWait \/ WaitPoll \/ InitNormal \/ NormalM1 \/ NormalWait
    \/ NormalFinish \/ InitFinish \/ InitReturn
    \/ EnterM1 \/ EnterWait \/ EnterFinish
    \/ ReadParamsWaited \/ ReadParamsRead \/ ReadBytesPoll
    \/ ApplyBody \/ ApplyEntered \/ ApplyWritten \/ ApplyEchoed \/ ApplyReadback
    \/ ApplyVerify \/ FailFinish
    \/ ReadBody \/ ReadEntered \/ ReadResp \/ ReadVerify
    \/ Deliver \/ Listener

\* the driver's fiber executes its next step whenever a call is in progress:
\* weak fairness of Driver, WF_vars(Driver), with ENABLED <<Driver>>_vars
\* written out as pc # "idle"
DriverRuns == []<>(pc = "idle") \/ []<><<Driver>>_vars

\* the scheduler resumes a paused fiber
PauseEnds == WF_vars(Pause)

\* the ready line, the UART input and the caller are under no obligation
SpecLive == Init /\ [][NextLive]_vars /\ DriverRuns /\ PauseEnds

-----------------------------------------------------------------------------
(* Properties *)

\* an applyConfig or readConfig call has returned
Returned(name) == pc = "idle" /\ op = name
ReturnedTxn == pc = "idle" /\ op \in {"apply", "read"}

Logged(e) == \E i \in 1..Len(callLog) : callLog[i] = e

\* the bytes 1..5 of a 6-byte response
Bytes1to5(r) == SubSeq(r, 2, 6)

\* C1: after applyConfig or readConfig returns, configOk() false implies that
\* lastError() is not the empty string.
C1_FailSafe == (ReturnedTxn /\ ~cfgOk) => lastError # ""

\* applyConfig returned from its last failure branch: nothing was read back
C1_Witness ==
    /\ Returned("apply") /\ ~cfgOk /\ Logged("cmd:ready") /\ readback = Null
    /\ lastError \in {"No bytes received from module",
                      "Config write failed (no echo, no readback)"}

\* C2 (as claimed): an applyConfig that returns with configOk() false leaves
\* the cached configuration as it was before the call.
C2_ApplyFailureKeepsCache == (Returned("apply") /\ ~cfgOk) => lastCfg = preCfg

\* C3: a readConfig that returns with configOk() false leaves the cached
\* configuration as it was before the call.
C3_ReadFailureKeepsCache == (Returned("read") /\ ~cfgOk) => lastCfg = preCfg

\* a readConfig failed on a 6-byte response with a wrong header while a
\* configuration was cached
C3_Witness ==
    /\ Returned("read") /\ ~cfgOk /\ preCfg # Null /\ lastCfg = preCfg
    /\ Len(readback) = 6 /\ readback[1] = 153

\* C4: when the verification read of applyConfig returned at least 6 bytes
\* starting with 0xC0, the call is a verified success: the cache is bytes 1..5
\* of the response, configOk() is true, lastError() is empty, currentUart is
\* the uart argument and the UART runs at that speed.
C4_VerifiedSuccess ==
    (Returned("apply") /\ Len(readback) >= 6 /\ readback[1] = 192)
    => /\ lastCfg = Bytes1to5(readback)
       /\ cfgOk /\ lastError = ""
       /\ currentUart = args.uart
       /\ uart = [tx |-> "P14", rx |-> "P15", baud |-> BaudRateFromUart(args.uart)]

\* a verified success whose response differs from the bytes written
C4_Witness ==
    /\ Returned("apply") /\ readback = <<192, 1, 2, 10, 26, 5>>
    /\ lastCfg = <<1, 2, 10, 26, 5>> /\ lastCfg # Attempted(args)
    /\ cfgOk /\ lastError = "" /\ args.uart = 7 /\ currentUart = 7
    /\ uart.baud = 115200

\* the read-back of applyConfig gave no valid response
C5_NoValidReadback == readback = Null \/ Len(readback) < 6 \/ readback[1] # 192

\* C5: when the read-back gave no valid response and an echo of at least 6
\* bytes starting with 0xC0 or 0xC2 was captured after the write, applyConfig
\* ends with configOk() true and a non-empty lastError().
C5_DegradedSuccess ==
    (Returned("apply") /\ C5_NoValidReadback
       /\ Len(echo) >= 6 /\ echo[1] \in {192, 194})
    => (cfgOk /\ lastError # "")

\* a degraded success on an echo with the alternate header, nothing read back
C5_Witness ==
    /\ Returned("apply") /\ readback = Null /\ Len(echo) = 6 /\ echo[1] = 194
    /\ cfgOk /\ lastError = "No readback; echo ok (likely configured)"

\* C6: whenever applyConfig or readConfig returns, both mode-select lines are 0.
C6_LinesNormalAtReturn == ReturnedTxn => (m0 = 0 /\ m1 = 0)

\* a call returned after the ready wait of exitConfigMode itself timed out
C6_Witness ==
    /\ ReturnedTxn /\ Logged("enter:ready") /\ Logged("normal:timeout")
    /\ m0 = 0 /\ m1 = 0

\* C7 (as claimed): the line listener does not run while an applyConfig or
\* readConfig call is in progress.
C7_NoListenerDuringTransaction ==
    \A i \in 1..Len(lsnLog) :
        ~(lsnLog[i].inCall /\ lsnLog[i].op \in {"apply", "read"})

\* C8 (as claimed): a 6-byte response starting with 0xC2 is accepted like one
\* starting with 0xC0: configOk() true, cache = bytes 1..5 of the response.
C8_AltHeaderAccepted ==
    (ReturnedTxn /\ Len(readback) = 6 /\ readback[1] \in {192, 194})
    => (cfgOk /\ lastCfg = Bytes1to5(readback))

\* C8 (amended): a 6-byte response starting with 0xC0 is accepted; one
\* starting with 0xC2 is not: readConfig fails on it with the cache unchanged
\* and an unexpected-header error, applyConfig ends with a non-empty
\* lastError() and a cache that is not taken from the response.
C8_OnlyWriteHeaderAccepted ==
    /\ (ReturnedTxn /\ Len(readback) = 6 /\ readback[1] = 192)
       => (cfgOk /\ lastCfg = Bytes1to5(readback))
    /\ (Returned("read") /\ Len(readback) = 6 /\ readback[1] = 194)
       => /\ ~cfgOk /\ lastCfg = preCfg
          /\ lastError \in {"readConfig: unexpected header 194",
                            "Unexpected config header: 194"}
    /\ (Returned("apply") /\ Len(readback) = 6 /\ readback[1] = 194)
       => (lastError # "" /\ lastCfg \in {preCfg, Attempted(args)})

\* readConfig rejected a 6-byte response that starts with 0xC2
C8_Witness ==
    /\ Returned("read") /\ readback = <<194, 1, 2, 3, 4, 5>>
    /\ ~cfgOk /\ lastCfg = preCfg

\* C9: readConfig classifies what readBytesWithTimeout returned by length and
\* then by header: fewer than 6 bytes (or none) fail as no/short response
\* whatever the first byte; 6 bytes starting with 0xC0 succeed and are cached;
\* 6 bytes starting with a byte outside {0xC0, 0xC2} fail as unexpected header.
C9_ReadClassification ==
    (Returned("read") /\ Logged("cmd:ready"))
    => /\ Len(rbRes) < 6
          => /\ ~cfgOk /\ lastCfg = preCfg
             /\ lastError \in {"readConfig: no/short response",
                               "No/short config response",
                               "No bytes received from module"}
       /\ (Len(rbRes) = 6 /\ rbRes[1] = 192)
          => (cfgOk /\ lastCfg = Bytes1to5(rbRes))
       /\ (Len(rbRes) = 6 /\ rbRes[1] \notin {192, 194})
          => /\ ~cfgOk
             /\ lastError \in {"readConfig: unexpected header " \o ToString(rbRes[1]),
                               "Unexpected config header: " \o ToString(rbRes[1])}

\* a short response with the accepted header failed as short
C9_Witness ==
    /\ Returned("read") /\ Logged("cmd:ready") /\ rbRes = <<192, 1, 2>>
    /\ ~cfgOk /\ lastError \in {"readConfig: no/short response",
                                "No/short config response"}

\* C10: when the ready line did not go high within the enter-config budget,
\* the call wrote nothing to the UART, did not switch the UART to the config
\* speed (enterConfigMode logs enter:ready where it does), recorded the
\* enter-config timeout, ran exitConfigMode and returned with configOk() false.
C10_EnterTimeout ==
    (ReturnedTxn /\ Logged("enter:timeout"))
    => /\ txLog = <<>>
       /\ ~Logged("enter:ready")
       /\ lastError = "Timeout entering config mode (AUX)"
       /\ (Logged("normal:ready") \/ Logged("normal:timeout"))
       /\ m0 = 0 /\ m1 = 0 /\ uart.baud = BaudRateFromUart(currentUart)
       /\ ~cfgOk

\* applyConfig returned after an enter-config timeout, at a normal-mode speed
\* other than the config speed
C10_Witness ==
    /\ Returned("apply") /\ Logged("enter:timeout") /\ txLog = <<>>
    /\ ~cfgOk /\ currentUart = 7 /\ uart.baud = 115200

\* the driver is inside readBytesWithTimeout (reading, or paused between reads)
InReadBytes == pc = "rb" \/ (pc = "pause" /\ ret # <<>> /\ Head(ret) = "rb")

\* a write of the config channel: the 6-byte write frame or the read request
ConfigWrite(w) ==
    (Len(w.bytes) = 6 /\ w.bytes[1] = 192) \/ w.bytes = <<193, 193, 193>>

\* C11: the write frame and the read request are sent, and the response bytes
\* are read, only while both mode-select lines are 1 and the UART runs at 9600.
C11_ConfigChannel ==
    /\ \A i \in 1..Len(txLog) :
           ConfigWrite(txLog[i])
           => (txLog[i].baud = 9600 /\ txLog[i].m0 = 1 /\ txLog[i].m1 = 1)
    /\ InReadBytes => (uart.baud = 9600 /\ m0 = 1 /\ m1 = 1)

\* applyConfig has sent the frame and the request and reads the response at
\* 9600 while the normal-mode speed is 115200
C11_Witness ==
    /\ op = "apply" /\ pc = "rb" /\ Len(txLog) = 2
    /\ Len(txLog[1].bytes) = 6 /\ txLog[2].bytes = <<193, 193, 193>>
    /\ txLog[1].baud = 9600 /\ txLog[2].baud = 9600
    /\ currentUart = 7 /\ uart.baud = 9600 /\ m0 = 1 /\ m1 = 1

\* the rules of currentUartSpeed, common to both readings of C12: it is 9600
\* after the init that initialises, becomes the uart argument in an
\* applyConfig that ends with configOk() true, and is unchanged by a failing
\* applyConfig and by every readConfig
C12_SpeedRules ==
    /\ (Returned("init") /\ Logged("init")) => currentUart = 3
    /\ (Returned("apply") /\ cfgOk) => currentUart = args.uart
    /\ (Returned("apply") /\ ~cfgOk) => currentUart = preUart
    /\ Returned("read") => currentUart = preUart
    /\ (pc # "idle" /\ pc # "apply_verify") => currentUart = preUart

\* C12 (as claimed): whenever init, applyConfig or readConfig returns, the
\* UART is set to the speed of currentUartSpeed; with the rules of
\* currentUartSpeed.
C12_UartAtCurrentSpeed ==
    /\ (pc = "idle" /\ op \in {"init", "apply", "read"})
       => uart.baud = BaudRateFromUart(currentUart)
    /\ C12_SpeedRules

\* C12 (amended): whenever applyConfig, readConfig or an init call that
\* initialises the driver returns, the UART is on the radio pins at the speed
\* of currentUartSpeed; an init call on an initialised driver returns at once,
\* with the UART either so or on USB; with the rules of currentUartSpeed.
C12_UartAfterWork ==
    /\ (pc = "idle" /\ (op \in {"apply", "read"} \/ (op = "init" /\ Logged("init"))))
       => uart = [tx |-> "P14", rx |-> "P15", baud |-> BaudRateFromUart(currentUart)]
    /\ (Returned("init") /\ ~Logged("init"))
       => \/ uart = [tx |-> "P14", rx |-> "P15", baud |-> BaudRateFromUart(currentUart)]
          \/ uart = [tx |-> "usb", rx |-> "usb", baud |-> 115200]
    /\ C12_SpeedRules

\* a readConfig failed after an applyConfig had set 115200: the UART is back
\* at 115200
C12_Witness ==
    /\ Returned("read") /\ ~cfgOk /\ Logged("enter:ready")
    /\ preUart = 7 /\ currentUart = 7
    /\ uart = [tx |-> "P14", rx |-> "P15", baud |-> 115200]

\* the failures a transaction logs when it records an error
LoggedFailure ==
    Logged("enter:timeout") \/ Logged("write:timeout") \/ Logged("cmd:timeout")

\* C13: applyConfig and readConfig reset lastError to empty and configOk to
\* false before any mode-line, ready-line or UART action: from the first such
\* action to the verification configOk is false and lastError is empty or was
\* recorded by a failure of this call; a call that ends in verified success
\* ends with lastError() empty, and a non-empty lastError() at return goes with
\* configOk() false or is the advisory of a degraded success.
C13_ResetAtStart ==
    /\ (op \in {"apply", "read"} /\ pc \notin {"idle", "apply_body", "read_body"})
       => /\ ~cfgOk
          /\ lastError # ""
             => (LoggedFailure \/ lastError = "No bytes received from module")
    /\ (ReturnedTxn /\ cfgOk /\ Len(readback) >= 6 /\ readback[1] = 192)
       => lastError = ""
    /\ (ReturnedTxn /\ lastError # "")
       => (~cfgOk \/ lastError = "No readback; echo ok (likely configured)")

\* a verified success right after a transaction that had left an error
C13_Witness ==
    /\ ReturnedTxn /\ preFailed /\ calls = 2
    /\ cfgOk /\ lastError = "" /\ Len(readback) = 6 /\ readback[1] = 192

\* C14: for any sequence of init and onReceiveString calls exactly one line
\* listener is installed, and each input line invokes the most recently
\* registered handler exactly once (no handler when none is registered); no
\* earlier handler is invoked.
C14_SingleListener ==
    /\ listeners <= 1
    /\ (inited \/ rxHandler # 0) => listeners = 1
    /\ (pc = "idle" /\ LineQuiet /\ op \in {"init", "onReceive"})
       => /\ Len(lsnLog) = lineCnt
          /\ \A i \in 1..Len(lsnLog) :
                lsnLog[i].h = rxHandler /\ lsnLog[i].s = <<111, 107, 10>>

\* two registrations on a driver that was never initialised, then one line:
\* one invocation, of the handler registered last
C14_Witness ==
    /\ pc = "idle" /\ LineQuiet /\ op = "onReceive" /\ calls = 2 /\ ~inited
    /\ rxHandler = 2 /\ listeners = 1 /\ lineCnt = 1
    /\ Len(lsnLog) = 1 /\ lsnLog[1].h = 2 /\ lsnLog[1].s = <<111, 107, 10>>

\* the bytes of the two texts on the wire: "hi", and U+00E9 as UTF-8
TextOnWire(t) == IF t = <<233>> THEN <<195, 169>> ELSE t

\* the body a send writes: the text, then one newline under line framing
ExpectedBody == TextOnWire(msg) \o (IF useLineMode THEN <<10>> ELSE <<>>)

\* C15: sendString(text) writes the header [addrH, addrL, channel] if and only
\* if the tx mode is Fixed (bytes 0..2 of cachedConfig when a cache exists,
\* otherwise [0, 0, 0x17]), before the body; then text, then a single newline
\* if and only if line framing is enabled.
C15_SendString ==
    Returned("sendString")
    => IF fixedMode
       THEN /\ Len(txLog) = 2
            /\ txLog[1].bytes = (IF lastCfg # <<>> THEN SubSeq(lastCfg, 1, 3)
                                  ELSE <<0, 0, 23>>)
            /\ txLog[2].bytes = ExpectedBody
       ELSE /\ Len(txLog) = 1
            /\ txLog[1].bytes = ExpectedBody

\* send("hi") in Fixed mode with a cached configuration and line framing
C15_Witness ==
    /\ Returned("sendString") /\ fixedMode /\ useLineMode
    /\ lastCfg = <<1, 2, 10, 26, 5>> /\ msg = <<104, 105>>
    /\ Len(txLog) = 2 /\ txLog[1].bytes = <<1, 2, 10>>
    /\ txLog[2].bytes = <<104, 105, 10>>

\* one step of a sendFixed call: it changes neither the tx mode nor the cache,
\* and its writing step writes the masked header, then the body
C16_Step ==
    /\ (op = "sendFixed" /\ pc # "idle")
       => (fixedMode' = fixedMode /\ lastCfg' = lastCfg)
    /\ pc = "sendfixed_body"
       => /\ Len(txLog') = 2
          /\ txLog'[1].bytes = <<args.addh % 256, args.addl % 256, args.ch % 256>>
          /\ txLog'[2].bytes = ExpectedBody

\* C16: sendFixed(addrH, addrL, ch, text) always writes the header
\* [addrH & 0xFF, addrL & 0xFF, ch & 0xFF] followed by text (plus a newline
\* under line framing), whatever the tx mode and the cache, and changes
\* neither the tx mode nor cachedConfig.
C16_SendFixed == [][C16_Step]_vars

\* sendFixed(261, 0, 23, "hi") in Transparent mode with another address cached
C16_Witness ==
    /\ Returned("sendFixed") /\ ~fixedMode /\ lastCfg = <<1, 2, 10, 26, 5>>
    /\ args.addh = 261 /\ msg = <<104, 105>> /\ useLineMode
    /\ Len(txLog) = 2 /\ txLog[1].bytes = <<5, 0, 23>>
    /\ txLog[2].bytes = <<104, 105, 10>>

\* the fields of a speed byte and of an option byte, by bit position
ParityOf(b) == b \div 64
UartOf(b) == (b \div 8) % 8
AirOf(b) == b % 8
PowerOf(b) == b % 4
FixedFlagOf(b) == (b \div 4) % 2

\* C17: for parity in 0..2, uartBaud in 0..7 and airDataRate in 0..5 the speed
\* byte decodes back to the same three values; for power in 0..3 and mode in
\* {Transparent, Fixed} the option byte decodes back to the same pair, with
\* all other bits 0.
C17_RoundTrip ==
    frame # <<>>
    => /\ (args.parity \in 0..2 /\ args.uart \in 0..7 /\ args.air \in 0..5)
          => /\ ParityOf(frame[5]) = args.parity
             /\ UartOf(frame[5]) = args.uart
             /\ AirOf(frame[5]) = args.air
       /\ (args.p \in 0..3 /\ args.mode \in {0, 1})
          => /\ PowerOf(frame[6]) = args.p
             /\ FixedFlagOf(frame[6]) = args.mode
             /\ frame[6] \div 8 = 0

\* the largest valid settings: even parity, 115200, 19.2 kbps; 10 dBm, Fixed
C17_Witness ==
    /\ frame # <<>> /\ args.parity = 2 /\ args.uart = 7 /\ args.air = 5
    /\ args.p = 3 /\ args.mode = 1 /\ frame[5] = 189 /\ frame[6] = 7

\* C18: out-of-range enum arguments are masked to their field width: for any
\* integer parity, uartBaud and airDataRate the speed byte is in 0..255 and its
\* fields are parity & 3, uartBaud & 7 and airDataRate & 7 (uartBaud = 9 is
\* packed as 1).
C18_Masking ==
    frame # <<>>
    => /\ frame[5] \in 0..255
       /\ ParityOf(frame[5]) = args.parity % 4
       /\ UartOf(frame[5]) = args.uart % 8
       /\ AirOf(frame[5]) = args.air % 8

\* uartBaud = 9 with parity 0 and air rate 0: the speed byte is 1 << 3
C18_Witness ==
    /\ frame # <<>> /\ args.uart = 9 /\ args.parity = 0 /\ args.air = 0
    /\ frame[5] = 8

\* C19: for all arguments the write frame is the 6 bytes [0xC0, addrH & 0xFF,
\* addrL & 0xFF, ch & 0xFF, speedByte, optionByte], every byte in 0..255.
C19_FrameShape ==
    frame # <<>>
    => /\ Len(frame) = 6
       /\ frame[1] = 192
       /\ frame[2] = args.addh % 256
       /\ frame[3] = args.addl % 256
       /\ frame[4] = args.ch % 256
       /\ frame[5] = (args.parity % 4) * 64 + (args.uart % 8) * 8 + (args.air % 8)
       /\ frame[6] = (args.p % 4) + (IF args.mode = 1 THEN 4 ELSE 0)
       /\ \A i \in 1..6 : frame[i] \in 0..255

\* a frame for the address arguments -1, 300, 0
C19_Witness ==
    /\ frame # <<>> /\ args.addh = -1 /\ args.addl = 300 /\ args.ch = 0
    /\ Len(frame) = 6 /\ frame[1] = 192
    /\ frame[2] = 255 /\ frame[3] = 44 /\ frame[4] = 0

\* the driver stands between the two pin writes of a mode switch
MidSwitch == pc \in {"swn_m1", "ecm_m1"}

\* C20: after every completed mode switch and wherever the driver pauses,
\* polls the ready line, or reads or writes the UART, the two mode-select
\* lines are both 0 or both 1, in init, applyConfig and readConfig alike.
C20_LinesNeverMixed ==
    /\ ~MidSwitch => (m0 = m1 /\ m0 \in {0, 1})
    /\ \A i \in 1..Len(txLog) : txLog[i].m0 = txLog[i].m1

\* applyConfig has written the frame and polls the ready line in Config mode
C20_Witness ==
    /\ op = "apply" /\ pc = "wait" /\ Len(txLog) = 1 /\ elapsed > 0
    /\ m0 = 1 /\ m1 = 1 /\ txLog[1].m0 = 1 /\ txLog[1].m1 = 1

-----------------------------------------------------------------------------
(* C21 *)

\* the cache is absent or exactly five bytes
CacheShape(cfg) == cfg = Null \/ (Len(cfg) = 5 /\ \A i \in 1..5 : cfg[i] \in 0..255)

\* what the accessor named f has to return for the cache cfg
CacheByte(f, cfg) ==
    IF cfg = Null THEN 0
    ELSE CASE f = "cfgADDH" -> cfg[1] [] f = "cfgADDL" -> cfg[2] [] f = "cfgChannel" -> cfg[3]

C21_Step ==
    /\ CacheShape(lastCfg')
    /\ (op' \in Accessors /\ op' # op) =>
           /\ retVal' = CacheByte(op', lastCfg)
           /\ UNCHANGED <<vGlob, vHw, vRx, vCtl, vLoc>>

\* C21: cfgADDH, cfgADDL and cfgChannel return 0 while nothing is cached and
\* otherwise bytes 0, 1 and 2 of the cache, they change no state of the driver,
\* and the cache is always absent or exactly five bytes in 0..255
C21_Accessors == [][C21_Step]_vars

C21_Accessors_Witness ==
    /\ op = "cfgChannel" /\ retVal = 10 /\ lastCfg = <<1, 2, 10, 26, 5>>

-----------------------------------------------------------------------------
(* C22 *)

\* the position in txLog of the first write of bytes b, 0 when there is none
SentAt(b) ==
    IF \E i \in 1..Len(txLog) : txLog[i].bytes = b
    THEN CHOOSE i \in 1..Len(txLog) :
            txLog[i].bytes = b /\ \A j \in 1..(i - 1) : txLog[j].bytes # b
    ELSE 0

\* readBytesWithTimeout(6, ..) of readParamsWhileInConfigMode is running or has returned
ReadingResponse ==
    \/ (InReadBytes /\ \E i \in 1..Len(ret) : ret[i] = "rp_read")
    \/ pc = "rp_read"

\* C22: within applyConfig the write frame is on the UART only after
\* enterConfigMode saw the ready line high, the read request only after the
\* ready line was seen high after the write frame and behind the frame; a
\* timed-out wait after the write sends no read request and the call ends with
\* configOk() false; the response is read only after the ready line was seen
\* high after the read request
C22_ReadyGated ==
    op = "apply" =>
        /\ Len(txLog) >= 1 => (Logged("enter:ready") /\ txLog[1].bytes = frame)
        /\ SentAt(ReadCmd) > 0 =>
               (Logged("write:ready") /\ SentAt(ReadCmd) = 2 /\ ~Logged("write:timeout"))
        /\ Logged("write:timeout") =>
               (Len(txLog) = 1 /\ rpRes = Null /\ ~cfgOk)
        /\ (ReadingResponse \/ rpRes # Null) =>
               (Logged("cmd:ready") /\ SentAt(ReadCmd) = 2)

C22_ReadyGated_Witness ==
    /\ Returned("apply") /\ Logged("write:timeout")
    /\ Len(txLog) = 1 /\ txLog[1].bytes = frame /\ ~cfgOk /\ lastError # ""

-----------------------------------------------------------------------------
(* C24 *)

\* a step of readBytesWithTimeout's loop (a step of the UART at the same
\* position changes neither buf nor pc)
ReadBytesStep == pc = "rb" /\ (buf' # buf \/ pc' # "rb")

C24_Step ==
    ReadBytesStep =>
        /\ Len(buf') <= rbN
        \* a read: at most the missing bytes, taken in order from the front of
        \* the input, appended to what was accumulated, and no pause
        /\ buf' # buf =>
               /\ Len(buf) < rbN /\ pc' = "rb"
               /\ \E k \in 1..(rbN - Len(buf)) :
                      /\ buf' = buf \o Take(rxBuf, k)
                      /\ rxBuf = Take(rxBuf, k) \o rxBuf'
        \* a pause: only after an empty read
        /\ pc' = "pause" => (rxBuf = <<>> /\ buf' = buf /\ Len(buf) < rbN /\ elapsed < tmo)
        \* the return: null for nothing, else the 1..n bytes accumulated
        /\ pc' \notin {"rb", "pause"} =>
               /\ Len(buf) = rbN \/ elapsed >= tmo
               /\ rbRes' = (IF buf = <<>> THEN Null ELSE buf)
               /\ rxBuf' = rxBuf
        \* n bytes accumulated: the next step is the return
        /\ Len(buf) = rbN => (pc' \notin {"rb", "pause"} /\ rbRes' = buf)

\* C24: readBytesWithTimeout(n, t) returns null when nothing arrived before the
\* deadline and otherwise 1..n bytes, the chunks received in order; it returns
\* as soon as n bytes are accumulated, never asks for more than the bytes still
\* missing, and pauses only after an empty read
C24_ReadBytes == [][C24_Step]_vars

C24_ReadBytes_Witness ==
    /\ pc = "rb" /\ rbN = 6 /\ buf = <<192, 1, 2>> /\ rxBuf = <<10, 26, 5>>

-----------------------------------------------------------------------------
(* C23 *)

InCall == pc # "idle"

C23_Step ==
    \* a ready wait returns true exactly when it returns before its timeout,
    \* which it does only on a poll that read the line high
    /\ (pc = "wait" /\ pc' # "wait") => (waitRes' <=> elapsed < tmo)
    \* a poll that read the line low is followed by a pause: the clock advances
    /\ (pc = "wait" /\ pc' = "wait" /\ elapsed' # elapsed) =>
           (elapsed < tmo /\ elapsed' > elapsed)
    \* an accumulating read pauses only with time left, and the clock advances
    /\ (pc = "rb" /\ pc' = "pause") => (elapsed < tmo /\ elapsed' > elapsed)
    \* no wait and no accumulating read is still running one scheduler tick
    \* after its deadline
    /\ (pc' \in {"wait", "rb"} \/ (pc' = "pause" /\ Head(ret') = "rb")) =>
           elapsed' < tmo' + SchedTickMs

\* C23: every init, applyConfig and readConfig call returns, whatever the ready
\* line and the UART input do, as long as the driver's fiber is resumed after
\* its pauses; a ready wait returns true exactly when a poll before its timeout
\* read the line high, and waits and accumulating reads end by their deadline
C23_Terminates == [][C23_Step]_vars /\ (InCall ~> ~InCall)

C23_Terminates_Witness ==
    /\ Returned("read") /\ Logged("enter:ready") /\ Logged("cmd:ready")
    /\ rbRes = Null /\ ~cfgOk /\ elapsed >= tmo

-----------------------------------------------------------------------------
(* C25 *)

\* the operations that call ensureInit()
LazyOps == {"apply", "read", "sendString", "sendFixed", "serialToLoRa"}

\* the positions of init and of the helpers it calls
InitPcs == {"init_body", "init_w", "init_swn", "init_fin", "init_ret"}

\* the call is past ensureInit(), in the code of the operation itself: the
\* operation's entry is no longer the bottom of the return stack
PastEnsureInit ==
    /\ pc \notin InitPcs \cup {"idle"}
    /\ ret = <<>> \/ ret[Len(ret)] \notin
           {"apply_body", "read_body", "send_body", "sendfixed_body", "lora_body"}

\* what an init call on an initialised driver leaves alone
InitOutcome == <<m0, m1, uart, cfgOk, lastError, lastCfg, currentUart, inited>>

C25_Step ==
    \* the body runs at most once in a behaviour, and only on a fresh driver
    /\ initRuns' <= 1
    /\ initRuns' # initRuns => ~inited
    \* it ends with the mode lines at Normal, the UART at 9600 and a clean status
    /\ (inited' /\ ~inited) =>
           /\ initRuns' = 1
           /\ m0' = 0 /\ m1' = 0 /\ uart'.baud = CfgBaud
           /\ cfgOk' /\ lastError' = ""
    \* the operations that call ensureInit() run their own code on an
    \* initialised driver only
    /\ (op \in LazyOps /\ PastEnsureInit) => (inited /\ initRuns = 1)
    \* an init call on an initialised driver changes nothing
    /\ (op = "init" /\ inited /\ pc # "idle") => UNCHANGED InitOutcome

\* C25: the initialisation body runs at most once in any sequence of public
\* operations; applyConfig, readConfig, sendString, sendFixed and serialToLoRa
\* run it first on a fresh driver; it leaves the mode lines at Normal, the UART
\* at 9600, configOk() true and lastError() empty; an init call on an
\* initialised driver changes nothing, also after a failed transaction
C25_InitOnce == [][C25_Step]_vars

C25_InitOnce_Witness ==
    /\ Returned("init") /\ calls = 2 /\ initRuns = 1 /\ preFailed
    /\ ~cfgOk /\ lastError # ""

-----------------------------------------------------------------------------
(* C26 *)

\* the cache holds the bytes of an applyConfig call with mode = Fixed
CachedFixed == \E a \in ApplyInputs : a.mode = 1 /\ lastCfg = Attempted(a)

C26_Step ==
    \* the tx mode changes in a setTxMode step only, the line-framing flag in a
    \* useLineFraming step only
    /\ fixedMode' # fixedMode =>
           (pc = "idle" /\ op' = "setTxMode" /\ useLineMode' = useLineMode)
    /\ useLineMode' # useLineMode =>
           (pc = "idle" /\ op' = "useLineFraming" /\ fixedMode' = fixedMode)
    \* init, applyConfig and readConfig leave both as they are
    /\ op \in {"init", "apply", "read"} /\ pc # "idle" =>
           UNCHANGED <<fixedMode, useLineMode>>
    \* sendString writes the address header exactly in Fixed tx mode, whatever
    \* mode the cached configuration carries
    /\ (pc = "send_body" /\ pc' = "idle") =>
           /\ Len(txLog') = (IF fixedMode THEN 2 ELSE 1)
           /\ txLog'[Len(txLog')].bytes = StringBytes(Framed(msg, useLineMode))

\* C26: the tx mode used by sendString and the line-framing flag are changed
\* only by setTxMode and useLineFraming: init, applyConfig with any mode
\* argument and readConfig leave both unchanged, so sendString after
\* applyConfig(mode = Fixed) without setTxMode(Fixed) writes no address header
C26_SettersOnly == [][C26_Step]_vars

C26_SettersOnly_Witness ==
    /\ Returned("sendString") /\ calls = 2 /\ CachedFixed /\ cfgOk /\ ~fixedMode
    /\ Len(txLog) = 1 /\ txLog[1].bytes = <<104, 105, 10>>


=============================================================================
